---- MODULE Spec2Model ----
(***************************************************************************)
(* Model of the two Anvil command-line tools of the fill-pdf skill:        *)
(*   create_anvil_template.py  (the "creator")                             *)
(*   fill_anvil_template.py    (the "filler")                              *)
(* Each tool is a straight-line main(); the model splits a run at its      *)
(* blocking network calls, whose responses the environment chooses.        *)
(* The file system is shared by both tools: a function from absolute paths *)
(* to file contents.                                                       *)
(***************************************************************************)
EXTENDS Integers, Sequences, FiniteSets, TLC

VARIABLES
  fs,           \* the file system: absolute path -> file content
  fs0,          \* the file system when the run started
  encIn,        \* arguments of one graphql_upload call under test
  encBody,      \* the body that call built
  cArgs,        \* creator: command line, environment and working directory
  cPc,          \* creator: position in main()
  cCalls,       \* creator: the network calls made so far, in order
  cReplies,     \* creator: what urlopen did for each call that returned
  cCast,        \* creator: the local variable `cast`
  cExit,        \* creator: exit code of the process
  cErr,         \* creator: lines written to standard error
  fArgs,        \* filler: command line, environment and working directory
  fPc,          \* filler: position in main()
  fCalls,       \* filler: the fill requests sent
  fReplies,     \* filler: what urlopen did for each request that returned
  fExit,        \* filler: exit code of the process
  fErr,         \* filler: lines written to standard error
  fUsed         \* filler: the resolved template_id and payload_path

vars == <<fs, fs0, encIn, encBody, cArgs, cPc, cCalls, cReplies, cCast, cExit, cErr,
          fArgs, fPc, fCalls, fReplies, fExit, fErr, fUsed>>
encVars == <<encIn, encBody>>
creatorVars == <<cArgs, cPc, cCalls, cReplies, cCast, cExit, cErr>>
fillerVars == <<fArgs, fPc, fCalls, fReplies, fExit, fErr, fUsed>>

(***************************************************************************)
(* Bounds of the model.                                                    *)
(***************************************************************************)
\* longest uploaded file, in byte tokens
MaxFileLen == 3
\* number of distinct values uuid4 may return
MaxUuid == 2
\* longest fieldInfo.fields list the remote service returns
MaxFields == 2

\* the absent value of an optional string (Python None)
None == "<None>"

(***************************************************************************)
(* JSON values, as json.loads returns them: a tag and the Python value.    *)
(***************************************************************************)
JNull == [t |-> "null", v |-> "null"]
JStr(s) == [t |-> "str", v |-> s]
JBool(b) == [t |-> "bool", v |-> b]
JNum(n) == [t |-> "num", v |-> n]
JList(items) == [t |-> "list", v |-> items]
JObj(members) == [t |-> "obj", v |-> members]
\* a string that is the text of a path, str(path)
JPath(p) == [t |-> "path", v |-> p]
NoMembers == [k \in {} |-> JNull]
EmptyObj == JObj(NoMembers)

IsDict(j) == j.t = "obj"
IsList(j) == j.t = "list"

\* Python truth value of a JSON value
Truthy(j) ==
  CASE j.t = "null" -> FALSE
    [] j.t = "bool" -> j.v
    [] j.t = "num" -> j.v # 0
    [] j.t = "str" -> j.v # ""
    [] j.t = "list" -> Len(j.v) > 0
    [] j.t = "obj" -> DOMAIN j.v # {}
    [] OTHER -> TRUE

\* dict.get(key) on a JSON object
Get(obj, key) == IF key \in DOMAIN obj.v THEN obj.v[key] ELSE JNull

\* dict[key] = value
Put(obj, key, value) == JObj((key :> value) @@ obj.v)

\* Python `a or b`
OrElse(a, b) == IF Truthy(a) THEN a ELSE b

\* a file name: f"{stem}_{eid}{suffix}", or f"{stem}{suffix}" when eid is None
FileName(stem, eid, suffix) == [stem |-> stem, eid |-> eid, suffix |-> suffix]
\* no file name (fname=None of add_part)
NoName == FileName(None, None, None)

(***************************************************************************)
(* Byte strings.  A byte string is a sequence of tokens; a token stands    *)
(* for a run of bytes.  Tokens are tuples whose first element is the kind. *)
(***************************************************************************)
CRLF == <<"crlf">>
DASH2 == <<"--">>
\* the text "----anvil-boundary-<hex of u>"
BoundaryText(u) == <<"boundary", u>>
Byte(n) == <<"byte", n>>
\* the text of json.dumps(value): one line, ASCII only, no CR or LF in it
JsonText(value) == <<"json", value>>

Kind(tok) == tok[1]

\* b"\r\n".join(items) for a sequence of byte strings
RECURSIVE JoinCRLF(_)
JoinCRLF(items) ==
  IF Len(items) = 0 THEN <<>>
  ELSE IF Len(items) = 1 THEN items[1]
  ELSE items[1] \o <<CRLF>> \o JoinCRLF(Tail(items))

\* mimetypes.guess_type(filename)[0] or "application/pdf"
GuessMime(filename) ==
  CASE filename.suffix = ".pdf" -> "application/pdf"
    [] filename.suffix = ".png" -> "image/png"
    [] OTHER -> "application/pdf"

(***************************************************************************)
(* The multipart upload encoder of graphql_upload.                         *)
(***************************************************************************)
DispositionLine(name, fname) ==
  IF fname = NoName THEN <<"cd", name>> ELSE <<"cdf", name, fname>>

TypeLine(content_type) == <<"ct", content_type>>

\* add_part without the empty last element: no blank line after the headers
PartHeaderNoBlankLine(boundary, name, content_type, fname) ==
  << <<DASH2, boundary>>, <<DispositionLine(name, fname)>> >>
  \o (IF content_type # None THEN << <<TypeLine(content_type)>> >> ELSE <<>>)

\* the header list of add_part, ending with the empty byte string
PartHeader(boundary, name, content_type, fname) ==
  << <<DASH2, boundary>>, <<DispositionLine(name, fname)>> >>
  \o (IF content_type # None THEN << <<TypeLine(content_type)>> >> ELSE <<>>)
  \o << <<>> >>

\* add_part: the two items it appends to `parts`
AddPart(boundary, name, content, content_type, fname) ==
  << JoinCRLF(PartHeader(boundary, name, content_type, fname)), content >>

Operations(query, variables) == [query |-> query, variables |-> variables]
Mapping(upload_var_path) == "0" :> <<upload_var_path>>

\* the request body graphql_upload builds
UploadBody(boundary, query, variables, upload_var_path, filename, file_bytes) ==
  LET parts ==
        AddPart(boundary, "operations",
                <<JsonText(Operations(query, variables))>>, "application/json", NoName)
        \o AddPart(boundary, "map",
                   <<JsonText(Mapping(upload_var_path))>>, "application/json", NoName)
        \o AddPart(boundary, "0", file_bytes, GuessMime(filename), filename)
        \o << <<DASH2, boundary, DASH2>> >>
  IN JoinCRLF(parts) \o <<CRLF>>

(***************************************************************************)
(* A multipart/form-data parser (RFC 2046 section 5.1.1): the body is cut  *)
(* at the delimiter lines CRLF "--" boundary; a part is header lines, a    *)
(* blank line, then content up to the next delimiter; "--" after a         *)
(* delimiter closes the body.                                              *)
(***************************************************************************)
Part(name, fname, ctype, content) ==
  [name |-> name, filename |-> fname, ctype |-> ctype, content |-> content]

Malformed == <<Part("<malformed>", NoName, None, <<>>)>>

At(body, i) == IF i >= 1 /\ i <= Len(body) THEN body[i] ELSE <<"eof">>

DelimiterAt(body, i, boundary) ==
  /\ Kind(At(body, i)) = "crlf"
  /\ Kind(At(body, i + 1)) = "--"
  /\ Kind(At(body, i + 2)) = "boundary"
  /\ At(body, i + 2) = boundary

\* index of the CRLF of the first delimiter at or after i, 0 when there is none
RECURSIVE NextDelimiter(_, _, _)
NextDelimiter(body, i, boundary) ==
  IF i > Len(body) THEN 0
  ELSE IF DelimiterAt(body, i, boundary) THEN i
  ELSE NextDelimiter(body, i + 1, boundary)

\* header lines from index i: <<index after the blank line, name, filename, ctype>>,
\* index 0 when the header block is malformed
RECURSIVE ParseHeaders(_, _, _, _, _)
ParseHeaders(body, i, name, fname, ctype) ==
  LET k == Kind(At(body, i)) IN
  IF k = "crlf" THEN <<i + 1, name, fname, ctype>>
  ELSE IF Kind(At(body, i + 1)) # "crlf" THEN <<0, name, fname, ctype>>
  ELSE IF k = "cd" THEN ParseHeaders(body, i + 2, At(body, i)[2], NoName, ctype)
  ELSE IF k = "cdf" THEN ParseHeaders(body, i + 2, At(body, i)[2], At(body, i)[3], ctype)
  ELSE IF k = "ct" THEN ParseHeaders(body, i + 2, name, fname, At(body, i)[2])
  ELSE <<0, name, fname, ctype>>

\* the parts from index i, which is just after a delimiter
RECURSIVE ParseAfterDelimiter(_, _, _, _)
ParseAfterDelimiter(body, i, boundary, acc) ==
  IF Kind(At(body, i)) = "--" THEN acc
  ELSE IF Kind(At(body, i)) # "crlf" THEN Malformed
  ELSE LET h == ParseHeaders(body, i + 1, None, NoName, None)
           j == NextDelimiter(body, h[1], boundary)
       IN IF h[1] = 0 \/ h[2] = None \/ j = 0 THEN Malformed
          ELSE ParseAfterDelimiter(body, j + 3, boundary,
                 Append(acc, Part(h[2], h[3], h[4], SubSeq(body, h[1], j - 1))))

ParseMultipart(body, boundary) ==
  IF Kind(At(body, 1)) = "--" /\ Kind(At(body, 2)) = "boundary" /\ At(body, 2) = boundary
  THEN ParseAfterDelimiter(body, 3, boundary, <<>>)
  ELSE Malformed

(***************************************************************************)
(* Paths and the file system.  A directory is a sequence of names, absolute*)
(* when it starts with "/"; a relative path is resolved against the        *)
(* working directory of the process that opens it.                         *)
(***************************************************************************)
PathOf(dir, name) == [dir |-> dir, name |-> name]
IsAbsolute(dir) == Len(dir) > 0 /\ dir[1] = "/"
Absolute(cwd, path) ==
  PathOf(IF IsAbsolute(path.dir) THEN path.dir ELSE cwd \o path.dir, path.name)
Exists(files, cwd, path) == Absolute(cwd, path) \in DOMAIN files
ReadFile(files, cwd, path) == files[Absolute(cwd, path)]
WriteFile(files, cwd, path, content) == (Absolute(cwd, path) :> content) @@ files

Bytes(data) == [t |-> "bytes", v |-> data]
NoFiles == [p \in {} |-> JNull]

(***************************************************************************)
(* Process results.                                                        *)
(***************************************************************************)
ExitOk == 0
ExitError == 1
ExitConfig == 2
NotExited == 0 - 1

\* a line on standard error: its text, and the HTTP status it quotes (0: none)
Msg(text, code) == [text |-> text, code |-> code]

\* the outcome of a call that may raise
Raise(exc, msg) == [exc |-> exc, msg |-> msg, value |-> JNull]
Return(value) == [exc |-> None, msg |-> Msg("", 0), value |-> value]

\* the line an exception leaves on standard error: the handler of main prints
\* str(err) of a RuntimeError; any other exception ends the process with a traceback
ErrLine(r) == IF r.exc = "RuntimeError" THEN r.msg ELSE Msg("Traceback", 0)

\* obj[key] on the value of a JSON document
Subscript(obj, key) ==
  IF ~IsDict(obj) THEN Raise("TypeError", Msg("not subscriptable", 0))
  ELSE IF key \notin DOMAIN obj.v THEN Raise("KeyError", Msg(key, 0))
  ELSE Return(obj.v[key])

(***************************************************************************)
(* The HTTP layer.  A response is what urlopen did: raised HTTPError with  *)
(* a status, raised URLError, or returned a body that is JSON or is not.   *)
(***************************************************************************)
HttpError(code) == [kind |-> "http", code |-> code, json |-> JNull]
NetworkError == [kind |-> "neterr", code |-> 0, json |-> JNull]
NonJson == [kind |-> "nonjson", code |-> 200, json |-> JNull]
JsonResponse(j) == [kind |-> "json", code |-> 200, json |-> j]

HttpErrorCodes == {404, 500}

\* request_json reporting an HTTPError without its status
RequestJsonNoStatus(resp) ==
  CASE resp.kind = "http" -> Raise("RuntimeError", Msg("HTTP error", 0))
    [] resp.kind = "neterr" -> Raise("RuntimeError", Msg("Network error", 0))
    [] resp.kind = "nonjson" -> Raise("RuntimeError", Msg("Non-JSON response", 0))
    [] OTHER -> Return(resp.json)

\* request_json: the parsed document, or RuntimeError
RequestJson(resp) ==
  CASE resp.kind = "http" -> Raise("RuntimeError", Msg("HTTP", resp.code))
    [] resp.kind = "neterr" -> Raise("RuntimeError", Msg("Network error", 0))
    [] resp.kind = "nonjson" -> Raise("RuntimeError", Msg("Non-JSON response", 0))
    [] OTHER -> Return(resp.json)

\* graphql_json and the tail of graphql_upload: out.get("data", {}) unless errors
GraphqlData(resp) ==
  LET out == RequestJson(resp) IN
  IF out.exc # None THEN out
  ELSE IF ~IsDict(out.value) THEN Raise("AttributeError", Msg("get", 0))
  ELSE IF Truthy(Get(out.value, "errors"))
       THEN Raise("RuntimeError", Msg("GraphQL errors", 0))
  ELSE IF "data" \in DOMAIN out.value.v THEN Return(out.value.v["data"])
  ELSE Return(EmptyObj)

\* data["<field>"] of a GraphQL answer
GraphqlField(resp, field) ==
  LET data == GraphqlData(resp) IN
  IF data.exc # None THEN data ELSE Subscript(data.value, field)

(***************************************************************************)
(* The encoder on its own: one graphql_upload call on arguments drawn from *)
(* bounded sets.                                                           *)
(***************************************************************************)
\* the values uuid4 returns: 122 random bits drawn when the call starts
Uuids == 1..MaxUuid
\* a boundary text left in an uploaded file by an earlier request
StaleBoundary == BoundaryText(0)

FileAlphabet == {Byte(1), CRLF, DASH2, StaleBoundary}

RECURSIVE SeqsUpTo(_, _)
SeqsUpTo(S, n) ==
  IF n = 0 THEN {<<>>}
  ELSE LET shorter == SeqsUpTo(S, n - 1)
       IN shorter \cup {Append(q, x) : q \in {r \in shorter : Len(r) = n - 1}, x \in S}

FileContents == SeqsUpTo(FileAlphabet, MaxFileLen)

EncQueries == {"mutation CreateCast", "mutation Other"}
EncVariables ==
  { JObj([file |-> JNull]),
    JObj([title |-> JStr("T"), file |-> JNull, isTemplate |-> JBool(TRUE)]) }
EncUploadPaths == {"variables.file", "variables.doc"}
EncFilenames ==
  {FileName("form", None, ".pdf"), FileName("scan", None, ".png"), FileName("blob", None, "")}

EncNotCalled == <<>>

EncoderInit ==
  /\ encIn \in [query : EncQueries, variables : EncVariables,
                upload_var_path : EncUploadPaths, filename : EncFilenames,
                file_bytes : FileContents, uuid : {0}]
  /\ encBody = EncNotCalled

\* graphql_upload up to the request: draw the boundary, build the body
Encode ==
  /\ encBody = EncNotCalled
  /\ \E u \in Uuids :
       /\ encIn' = [encIn EXCEPT !.uuid = u]
       /\ encBody' = UploadBody(BoundaryText(u), encIn.query, encIn.variables,
                                encIn.upload_var_path, encIn.filename,
                                encIn.file_bytes)
  /\ UNCHANGED <<fs, fs0, creatorVars, fillerVars>>

NoArgs == [idle |-> TRUE]

CreatorIdle ==
  /\ cArgs = NoArgs /\ cPc = "idle" /\ cCalls = <<>> /\ cReplies = <<>> /\ cCast = JNull
  /\ cExit = NotExited /\ cErr = <<>>

FillerIdle ==
  /\ fArgs = NoArgs /\ fPc = "idle" /\ fCalls = <<>> /\ fReplies = <<>> /\ fExit = NotExited
  /\ fErr = <<>> /\ fUsed = NoArgs

EncoderIdle == encIn = NoArgs /\ encBody = EncNotCalled

(***************************************************************************)
(* The creator: create_anvil_template.py.                                  *)
(***************************************************************************)
\* slugify on the names of the model: runs of non-alphanumerics become "-",
\* leading and trailing "-" are stripped, the rest is lowercased; "" -> "template"
Slugify(value) ==
  CASE value = "Form A" -> "form-a"
    [] value = "Title T" -> "title-t"
    [] value = "My Title" -> "my-title"
    [] value = "form" -> "form"
    [] value = "!!!" -> "template"
    [] OTHER -> "template"

FontSize == 10

\* title = args.title or pdf_path.stem
TitleOf(args) == IF args.title \notin {None, ""} THEN args.title ELSE args.pdf.name.stem

\* args.alias_id or None
AliasIds(args) == IF Len(args.aliasIds) > 0 THEN JList(args.aliasIds) ELSE JNull

\* the variables of the createCast mutation
CreateVariables(args) ==
  JObj([title |-> JStr(TitleOf(args)),
        file |-> JNull,
        isTemplate |-> JBool(TRUE),
        detectFields |-> JBool(args.detectFields),
        detectBoxesAdvanced |-> JBool(args.detectBoxesAdvanced),
        advancedDetectFields |-> JBool(args.advancedDetectFields),
        aliasIds |-> AliasIds(args)])

\* a request as urlopen receives it
Call(op, variables, body) == [op |-> op, variables |-> variables, body |-> body]

\* the body graphql_json posts
JsonBody(query, variables) == <<JsonText(Operations(query, variables))>>

CreateCastCall(args, files, u) ==
  Call("createCast", CreateVariables(args),
       UploadBody(BoundaryText(u), "mutation CreateCast", CreateVariables(args),
                  "variables.file", args.pdf.name,
                  ReadFile(files, args.cwd, args.pdf).v))

PublishVariables(args, cast, eid) ==
  JObj([eid |-> eid,
        title |-> OrElse(Get(cast, "title"), JStr(TitleOf(args))),
        description |-> JStr("Published via Codex skill script")])

PublishCastCall(args, cast, eid) ==
  Call("publishCast", PublishVariables(args, cast, eid),
       JsonBody("mutation PublishCast", PublishVariables(args, cast, eid)))

CastQueryCall(eid) ==
  Call("cast", JObj([eid |-> eid]), JsonBody("query Cast", JObj([eid |-> eid])))

\* the payload with `"data" in example_data` left out of the test
ExamplePayloadAnyDict(args, cast) ==
  LET example_data == OrElse(Get(cast, "exampleData"), EmptyObj) IN
  IF IsDict(example_data)
  THEN example_data
  ELSE JObj([title |-> OrElse(Get(cast, "title"), JStr(TitleOf(args))),
             fontSize |-> JNum(FontSize),
             textColor |-> JStr("#333333"),
             data |-> EmptyObj])

\* example_data and payload of main
ExampleData(cast) == OrElse(Get(cast, "exampleData"), EmptyObj)

ExamplePayload(args, cast) ==
  LET example_data == ExampleData(cast) IN
  IF IsDict(example_data) /\ "data" \in DOMAIN example_data.v
  THEN example_data
  ELSE JObj([title |-> OrElse(Get(cast, "title"), JStr(TitleOf(args))),
             fontSize |-> JNum(FontSize),
             textColor |-> JStr("#333333"),
             data |-> IF IsDict(example_data) THEN example_data ELSE EmptyObj])

\* the count with 0 in place of None when fields is no list
DetectedFieldCountOrZero(cast) ==
  LET field_info == OrElse(Get(cast, "fieldInfo"), EmptyObj)
      fields == IF IsDict(field_info) THEN Get(field_info, "fields") ELSE JNull
  IN IF IsList(fields) THEN JNum(Len(fields.v)) ELSE JNum(0)

\* field_info, fields and detected_field_count of main (JNull: None)
FieldInfo(cast) == OrElse(Get(cast, "fieldInfo"), EmptyObj)

DetectedFieldCount(cast) ==
  LET field_info == FieldInfo(cast)
      fields == IF IsDict(field_info) THEN Get(field_info, "fields") ELSE JNull
  IN IF IsList(fields) THEN JNum(Len(fields.v)) ELSE JNull

SafeName(args, cast) ==
  Slugify(OrElse(Get(cast, "name"), OrElse(Get(cast, "title"), JStr(TitleOf(args)))).v)

MetadataPath(args, cast) ==
  PathOf(args.outputDir, FileName(SafeName(args, cast), cast.v["eid"].v, ".template.json"))

ExamplePath(args, cast) ==
  PathOf(args.outputDir,
         FileName(SafeName(args, cast), cast.v["eid"].v, ".example-payload.json"))

Metadata(args, cast) ==
  JObj([templateId |-> cast.v["eid"],
        templateName |-> Get(cast, "name"),
        templateTitle |-> Get(cast, "title"),
        hasBeenPublished |-> Get(cast, "hasBeenPublished"),
        publishedNumber |-> Get(cast, "publishedNumber"),
        latestDraftVersionNumber |-> Get(cast, "latestDraftVersionNumber"),
        sourcePdfPath |-> JPath(args.pdf),
        fieldInfo |-> FieldInfo(cast),
        detectedFieldCount |-> DetectedFieldCount(cast),
        detectors |-> JObj([detectFields |-> JBool(args.detectFields),
                            detectBoxesAdvanced |-> JBool(args.detectBoxesAdvanced),
                            advancedDetectFields |-> JBool(args.advancedDetectFields),
                            aliasIds |-> AliasIds(args)]),
        examplePayloadPath |-> JPath(ExamplePath(args, cast))])

\* the two write_text calls of main
WriteOutputs(files, args, cast) ==
  WriteFile(WriteFile(files, args.cwd, MetadataPath(args, cast), Metadata(args, cast)),
            args.cwd, ExamplePath(args, cast), ExamplePayload(args, cast))

ZeroFieldsWarning == Msg("Warning: no fields detected", 0)

\* the lines main prints to standard error after writing
Warnings(cast) ==
  LET n == DetectedFieldCount(cast) IN
  IF n.t = "num" /\ n.v = 0 THEN <<ZeroFieldsWarning>> ELSE <<>>

\* what stops main between the re-fetch and the writes: cast.get on a value
\* that is no dict, cast["eid"] on a record without eid
DeriveError(cast) ==
  IF ~IsDict(cast) THEN Raise("AttributeError", Msg("get", 0))
  ELSE Subscript(cast, "eid")

\* main returns `code` after printing `lines` to standard error
CreatorExit(code, lines) ==
  /\ cExit' = code
  /\ cErr' = cErr \o lines
  /\ cPc' = "exited"

\* an exception leaves main: RuntimeError is caught and reported, exit code 1;
\* any other one is uncaught and the interpreter exits with code 1 as well
CreatorFail(r) ==
  /\ CreatorExit(ExitError, <<ErrLine(r)>>)
  /\ UNCHANGED <<fs, cArgs, cCalls, cCast>>

\* main sends the next request and blocks in urlopen
CreatorSend(call, at) ==
  /\ cCalls' = Append(cCalls, call)
  /\ cPc' = at
  /\ UNCHANGED <<fs, cArgs, cExit, cErr>>

\* main up to the first urlopen: credential check, input check, createCast upload
CreatorBegin ==
  /\ cPc = "start"
  /\ IF cArgs.apiKey \in {None, ""}
     THEN /\ CreatorExit(ExitConfig, <<Msg("Missing ANVIL_API_KEY environment variable", 0)>>)
          /\ UNCHANGED <<fs, cArgs, cCalls, cCast>>
     ELSE IF ~Exists(fs, cArgs.cwd, cArgs.pdf)
     THEN /\ CreatorExit(ExitConfig, <<Msg("PDF not found", 0)>>)
          /\ UNCHANGED <<fs, cArgs, cCalls, cCast>>
     ELSE /\ \E u \in Uuids : CreatorSend(CreateCastCall(cArgs, fs, u), "createCast")
          /\ UNCHANGED cCast
  /\ UNCHANGED <<fs0, cReplies, encVars, fillerVars>>

\* the query that follows a record: cast["eid"], then the cast query
SendCastQuery(cast) ==
  LET eid == Subscript(cast, "eid") IN
  IF eid.exc # None THEN CreatorFail(eid) /\ cCast' = cCast
  ELSE CreatorSend(CastQueryCall(eid.value), "cast") /\ cCast' = cast

\* createCast returned, with the --no-publish test left out
CreateCastReturnsAlwaysPublish(resp) ==
  /\ cPc = "createCast"
  /\ LET r == GraphqlField(resp, "createCast")
         eid == Subscript(r.value, "eid")
     IN IF r.exc # None THEN CreatorFail(r)
        ELSE IF eid.exc # None THEN CreatorFail(eid)
        ELSE /\ CreatorSend(PublishCastCall(cArgs, r.value, eid.value), "publishCast")
             /\ cCast' = r.value
  /\ cReplies' = Append(cReplies, resp)
  /\ UNCHANGED <<fs0, encVars, fillerVars>>

\* createCast returned: cast = data["createCast"], then publishCast or the re-fetch
CreateCastReturns(resp) ==
  /\ cPc = "createCast"
  /\ LET r == GraphqlField(resp, "createCast")
         eid == Subscript(r.value, "eid")
     IN IF r.exc # None THEN CreatorFail(r)
        ELSE IF cArgs.noPublish THEN SendCastQuery(r.value)
        ELSE IF eid.exc # None THEN CreatorFail(eid)
        ELSE /\ CreatorSend(PublishCastCall(cArgs, r.value, eid.value), "publishCast")
             /\ cCast' = r.value
  /\ cReplies' = Append(cReplies, resp)
  /\ UNCHANGED <<fs0, encVars, fillerVars>>

\* publishCast returned: cast = data["publishCast"], then the re-fetch
PublishCastReturns(resp) ==
  /\ cPc = "publishCast"
  /\ LET r == GraphqlField(resp, "publishCast")
     IN IF r.exc # None THEN CreatorFail(r) ELSE SendCastQuery(r.value)
  /\ cReplies' = Append(cReplies, resp)
  /\ UNCHANGED <<fs0, encVars, fillerVars>>

\* the re-fetch returned: cast = data["cast"], derive, write both files, report
CastReturns(resp) ==
  /\ cPc = "cast"
  /\ LET r == GraphqlField(resp, "cast")
         d == DeriveError(r.value)
     IN IF r.exc # None THEN CreatorFail(r)
        ELSE IF d.exc # None THEN CreatorFail(d)
        ELSE /\ fs' = WriteOutputs(fs, cArgs, r.value)
             /\ cCast' = r.value
             /\ CreatorExit(ExitOk, Warnings(r.value))
             /\ UNCHANGED <<cArgs, cCalls>>
  /\ cReplies' = Append(cReplies, resp)
  /\ UNCHANGED <<fs0, encVars, fillerVars>>

(***************************************************************************)
(* What the remote service may answer.                                     *)
(***************************************************************************)
Eids == {"eid1", "eid2"}
Opt(key, value) == IF value = JNull THEN NoMembers ELSE key :> value

\* a record; a JNull argument leaves the key out
CastObj(eid, name, title, exampleData, fieldInfo) ==
  JObj(Opt("eid", eid) @@ Opt("name", name) @@ Opt("title", title)
       @@ Opt("exampleData", exampleData) @@ Opt("fieldInfo", fieldInfo)
       @@ [hasBeenPublished |-> JBool(FALSE)])

FieldList(n) == [i \in 1..n |-> JObj([id |-> JNum(i)])]

ExampleDatas ==
  { JNull, EmptyObj,
    JObj([data |-> JObj([name |-> JStr("Jane")]), fontSize |-> JNum(12)]),
    JObj([name |-> JStr("Jane")]),
    JList(<<JNum(1)>>),
    JStr("text") }

FieldInfos ==
  { JNull, EmptyObj, JObj([fields |-> JStr("n/a")]), JList(<<JNum(1)>>) }
  \cup { JObj([fields |-> JList(FieldList(n))]) : n \in 0..MaxFields }

EidValues == {JStr(e) : e \in Eids} \cup {JNull}
NameValues == {JNull, JStr("Form A"), JStr("!!!")}
TitleValues == {JNull, JStr("Title T")}

\* the records createCast and publishCast return: main reads eid and title only
MutationCasts ==
  {CastObj(e, JNull, t, JNull, JNull) : e \in EidValues, t \in TitleValues} \cup {JNull}

\* the records the re-fetch returns
QueryCasts ==
  {CastObj(e, n, t, JNull, JNull) : e \in EidValues, n \in NameValues, t \in TitleValues}
  \cup {CastObj(JStr("eid1"), JStr("Form A"), t, x, f) :
          t \in TitleValues, x \in ExampleDatas, f \in FieldInfos}
  \cup {JNull}

\* the documents and failures one GraphQL call may end in
Responses(field, casts) ==
  {HttpError(c) : c \in HttpErrorCodes}
  \cup {NetworkError, NonJson}
  \cup {JsonResponse(JObj("data" :> JObj(field :> c))) : c \in casts}
  \cup {JsonResponse(j) : j \in
          { JObj("errors" :> JList(<<JStr("bad request")>>)),
            JObj("data" :> EmptyObj),
            JObj("data" :> JNull),
            EmptyObj,
            JList(<<>>) }}

CreatorArgs ==
  [apiKey : {None, "", "key"},
   cwd : {<<"/", "work">>},
   pdf : {PathOf(<<>>, FileName("form", None, ".pdf"))},
   title : {None, "My Title"},
   outputDir : {<<"output", "anvil_templates">>, <<"/", "srv", "templates">>},
   noPublish : BOOLEAN,
   detectFields : {TRUE},
   detectBoxesAdvanced : BOOLEAN,
   advancedDetectFields : {TRUE},
   aliasIds : {<<>>}]

PdfBytes == Bytes(<<Byte(1), CRLF, Byte(2)>>)
PdfAt(cwd) == Absolute(cwd, PathOf(<<>>, FileName("form", None, ".pdf"))) :> PdfBytes

CreatorInit ==
  /\ cArgs \in CreatorArgs
  /\ cPc = "start" /\ cCalls = <<>> /\ cReplies = <<>> /\ cCast = JNull
  /\ cExit = NotExited /\ cErr = <<>>

CreatorNext ==
  \/ CreatorBegin
  \/ \E resp \in Responses("createCast", MutationCasts) : CreateCastReturns(resp)
  \/ \E resp \in Responses("publishCast", MutationCasts) : PublishCastReturns(resp)
  \/ \E resp \in Responses("cast", QueryCasts) : CastReturns(resp)

SpecCreatorInit ==
  /\ CreatorInit /\ EncoderIdle /\ FillerIdle
  /\ fs \in {NoFiles, PdfAt(cArgs.cwd)}
  /\ fs0 = fs
SpecCreator == SpecCreatorInit /\ [][CreatorNext]_vars

(***************************************************************************)
(* The filler: fill_anvil_template.py.                                     *)
(***************************************************************************)
\* no path given (the argument is None)
NoPath == PathOf(<<>>, NoName)

\* json.loads(path.read_text()) of a file that exists
LoadJson(content) ==
  IF content.t \in {"bytes", "invalid"}
  THEN Raise("JSONDecodeError", Msg("invalid JSON", 0))
  ELSE Return(content)

\* json.loads(metadata_path.read_text()), then meta.get(key)
MetaGet(files, cwd, metadata_path, key) ==
  IF ~Exists(files, cwd, metadata_path)
  THEN Raise("FileNotFoundError", Msg("metadata", 0))
  ELSE LET meta == LoadJson(ReadFile(files, cwd, metadata_path)) IN
       IF meta.exc # None THEN meta
       ELSE IF ~IsDict(meta.value) THEN Raise("AttributeError", Msg("get", 0))
       ELSE Return(Get(meta.value, key))

\* resolve_template_id reading the metadata file before the explicit argument
ResolveTemplateIdMetaFirst(files, cwd, template_id, metadata_path) ==
  LET resolved == MetaGet(files, cwd, metadata_path, "templateId") IN
  IF metadata_path # NoPath /\ resolved.exc = None /\ Truthy(resolved.value)
  THEN resolved
  ELSE IF template_id \notin {None, ""} THEN Return(JStr(template_id))
  ELSE Raise("RuntimeError", Msg("Provide either --template-id or --template-metadata", 0))

\* resolve_template_id: the identifier, as the value the URL is formatted from
ResolveTemplateId(files, cwd, template_id, metadata_path) ==
  IF template_id \notin {None, ""} THEN Return(JStr(template_id))
  ELSE IF metadata_path = NoPath
  THEN Raise("RuntimeError", Msg("Provide either --template-id or --template-metadata", 0))
  ELSE IF ~Exists(files, cwd, metadata_path)
  THEN Raise("RuntimeError", Msg("Template metadata not found", 0))
  ELSE LET resolved == MetaGet(files, cwd, metadata_path, "templateId") IN
       IF resolved.exc # None THEN resolved
       ELSE IF ~Truthy(resolved.value)
       THEN Raise("RuntimeError", Msg("templateId missing in metadata", 0))
       ELSE resolved

\* resolve_payload_path: a JPath value
ResolvePayloadPath(files, cwd, payload_path, metadata_path) ==
  IF payload_path # NoPath THEN Return(JPath(payload_path))
  ELSE IF metadata_path = NoPath
  THEN Raise("RuntimeError", Msg("Provide --payload when using --template-id directly", 0))
  ELSE LET from_meta == MetaGet(files, cwd, metadata_path, "examplePayloadPath") IN
       IF from_meta.exc # None THEN from_meta
       ELSE IF ~Truthy(from_meta.value)
       THEN Raise("RuntimeError", Msg("examplePayloadPath missing in metadata", 0))
       ELSE IF from_meta.value.t # "path" THEN Raise("TypeError", Msg("Path", 0))
       ELSE from_meta

\* the payload object main reads from payload_path
LoadPayload(files, cwd, payload_path) ==
  IF ~Exists(files, cwd, payload_path)
  THEN Raise("RuntimeError", Msg("Payload file not found", 0))
  ELSE LET payload == LoadJson(ReadFile(files, cwd, payload_path)) IN
       IF payload.exc # None THEN payload
       ELSE IF ~IsDict(payload.value)
       THEN Raise("RuntimeError", Msg("Payload JSON must be an object", 0))
       ELSE payload

\* the two keys set with setdefault: keys the payload has are kept
InjectKeepExisting(args, payload) ==
  IF ~args.noInteractive
  THEN JObj(payload.v @@ [useInteractiveFields |-> JBool(TRUE),
                          defaultReadOnly |-> JBool(args.defaultReadOnly)])
  ELSE payload

\* the two keys main sets unless --no-interactive
Inject(args, payload) ==
  IF ~args.noInteractive
  THEN Put(Put(payload, "useInteractiveFields", JBool(TRUE)),
           "defaultReadOnly", JBool(args.defaultReadOnly))
  ELSE payload

\* the request fill_pdf builds: the URL's template id and versionNumber, the body
FillCall(template_id, version_number, payload) ==
  [op |-> "fill", templateId |-> template_id, versionNumber |-> version_number,
   body |-> <<JsonText(payload)>>]

PdfResponse(data) == [kind |-> "pdf", code |-> 200, json |-> Bytes(data)]

\* fill_pdf once urlopen is back: the PDF bytes, or RuntimeError
FillPdf(resp) ==
  CASE resp.kind = "http" -> Raise("RuntimeError", Msg("Anvil API error", resp.code))
    [] resp.kind = "neterr" -> Raise("RuntimeError", Msg("Network error", 0))
    [] OTHER -> Return(resp.json)

FillerExit(code, lines) ==
  /\ fExit' = code
  /\ fErr' = fErr \o lines
  /\ fPc' = "exited"

FillerFail(r) ==
  /\ FillerExit(ExitError, <<ErrLine(r)>>)
  /\ UNCHANGED <<fs, fArgs, fCalls, fUsed>>

\* main up to urlopen: credential check, resolution, payload, the fill request
FillerBegin ==
  /\ fPc = "start"
  /\ LET id == ResolveTemplateId(fs, fArgs.cwd, fArgs.templateId, fArgs.metadata)
         path == ResolvePayloadPath(fs, fArgs.cwd, fArgs.payload, fArgs.metadata)
         payload == LoadPayload(fs, fArgs.cwd, path.value.v)
     IN IF fArgs.apiKey \in {None, ""}
        THEN /\ FillerExit(ExitConfig, <<Msg("Missing ANVIL_API_KEY environment variable", 0)>>)
             /\ UNCHANGED <<fs, fArgs, fCalls, fUsed>>
        ELSE IF id.exc # None THEN FillerFail(id)
        ELSE IF path.exc # None THEN FillerFail(path)
        ELSE IF payload.exc # None THEN FillerFail(payload)
        ELSE /\ fCalls' = Append(fCalls, FillCall(id.value, fArgs.versionNumber,
                                                  Inject(fArgs, payload.value)))
             /\ fUsed' = [templateId |-> id.value, payloadPath |-> path.value.v]
             /\ fPc' = "fill"
             /\ UNCHANGED <<fs, fArgs, fExit, fErr>>
  /\ UNCHANGED <<fs0, fReplies, encVars, creatorVars>>

\* the fill request returned, with the body written before the status is looked at
FillReturnsWriteFirst(resp) ==
  /\ fPc = "fill"
  /\ fs' = WriteFile(fs, fArgs.cwd, fArgs.out, resp.json)
  /\ LET pdf_bytes == FillPdf(resp)
     IN IF pdf_bytes.exc # None
        THEN FillerExit(ExitError, <<ErrLine(pdf_bytes)>>)
        ELSE FillerExit(ExitOk, <<>>)
  /\ fReplies' = Append(fReplies, resp)
  /\ UNCHANGED <<fs0, fArgs, fCalls, fUsed, encVars, creatorVars>>

\* the fill request returned: write the PDF to --out, report
FillReturns(resp) ==
  /\ fPc = "fill"
  /\ LET pdf_bytes == FillPdf(resp)
     IN IF pdf_bytes.exc # None THEN FillerFail(pdf_bytes)
        ELSE /\ fs' = WriteFile(fs, fArgs.cwd, fArgs.out, pdf_bytes.value)
             /\ FillerExit(ExitOk, <<>>)
             /\ UNCHANGED <<fArgs, fCalls, fUsed>>
  /\ fReplies' = Append(fReplies, resp)
  /\ UNCHANGED <<fs0, encVars, creatorVars>>

FillResponses ==
  {HttpError(c) : c \in HttpErrorCodes}
  \cup {NetworkError}
  \cup {PdfResponse(<<Byte(1)>>), PdfResponse(<<Byte(2), Byte(1)>>)}

FillerNext ==
  \/ FillerBegin
  \/ \E resp \in FillResponses : FillReturns(resp)

(***************************************************************************)
(* The files and command lines a filler run may start from.                *)
(***************************************************************************)
WorkDir == <<"/", "work">>
MetaFile == PathOf(<<>>, FileName("tpl", None, ".template.json"))
ExampleFile == PathOf(<<"output">>, FileName("tpl", None, ".example-payload.json"))
PayloadFile == PathOf(<<>>, FileName("payload", None, ".json"))
OutFile == PathOf(<<"output">>, FileName("anvil_filled", None, ".pdf"))

Absent == [t |-> "absent", v |-> "absent"]
Invalid == [t |-> "invalid", v |-> "{"]
FileAt(cwd, path, content) ==
  IF content = Absent THEN NoFiles ELSE Absolute(cwd, path) :> content

MetaContents ==
  { Absent, Invalid, JList(<<>>), EmptyObj,
    JObj([templateId |-> JStr("tplM")]),
    JObj([templateId |-> JStr(""), examplePayloadPath |-> JPath(ExampleFile)]),
    JObj([templateId |-> JStr("tplM"), examplePayloadPath |-> JPath(ExampleFile)]) }

Jane == JObj([name |-> JStr("Jane")])

PayloadContents ==
  { Absent, Invalid, JList(<<Jane>>), EmptyObj,
    JObj([data |-> Jane]),
    JObj([data |-> Jane, useInteractiveFields |-> JBool(FALSE),
          defaultReadOnly |-> JStr("yes")]),
    JObj([data |-> Jane, title |-> JStr("T"), defaultReadOnly |-> JBool(TRUE)]) }

ExampleContents == {Absent, JObj([data |-> EmptyObj, title |-> JStr("Example")])}
OutContents == {Absent, Bytes(<<Byte(0)>>)}

FillerFileSystems ==
  { FileAt(WorkDir, MetaFile, m) @@ FileAt(WorkDir, ExampleFile, e)
    @@ FileAt(WorkDir, PayloadFile, p) @@ FileAt(WorkDir, OutFile, o) :
      m \in MetaContents, e \in ExampleContents, p \in PayloadContents, o \in OutContents }

FillerArgs ==
  [apiKey : {None, "key"},
   cwd : {WorkDir},
   templateId : {None, "", "tplX"},
   metadata : {NoPath, MetaFile},
   payload : {NoPath, PayloadFile},
   out : {OutFile},
   versionNumber : {JNull, JNum(2)},
   noInteractive : BOOLEAN,
   defaultReadOnly : BOOLEAN]

FillerInit ==
  /\ fArgs \in FillerArgs
  /\ fPc = "start" /\ fCalls = <<>> /\ fReplies = <<>> /\ fExit = NotExited /\ fErr = <<>>
  /\ fUsed = NoArgs

SpecFillerInit ==
  /\ FillerInit /\ EncoderIdle /\ CreatorIdle
  /\ fs \in FillerFileSystems
  /\ fs0 = fs
SpecFiller == SpecFillerInit /\ [][FillerNext]_vars

(***************************************************************************)
(* Either tool, run once.                                                  *)
(***************************************************************************)
SpecToolsInit == SpecCreatorInit \/ SpecFillerInit
SpecToolsNext == CreatorNext \/ FillerNext
SpecTools == SpecToolsInit /\ [][SpecToolsNext]_vars

SpecEncoderInit == EncoderInit /\ fs = NoFiles /\ fs0 = fs /\ CreatorIdle /\ FillerIdle
SpecEncoderNext == Encode
SpecEncoder == SpecEncoderInit /\ [][SpecEncoderNext]_vars

(***************************************************************************)
(* C6: the body the upload encoder builds, parsed as multipart/form-data,  *)
(* is exactly the three parts operations, map, 0 in that order; it opens   *)
(* with "--boundary" and ends with the terminator "--boundary--"; the      *)
(* operations part is the JSON of {query, variables}, the map part the     *)
(* JSON of {"0": [uploadVarPath]}, the 0 part carries the file bytes       *)
(* unchanged, and only the 0 part has a filename.                          *)
(***************************************************************************)
EncBoundary == BoundaryText(encIn.uuid)

C6_MultipartRoundTrip ==
  encBody # EncNotCalled =>
    LET parts == ParseMultipart(encBody, EncBoundary)
        n == Len(encBody)
    IN /\ Len(parts) = 3
       /\ <<parts[1].name, parts[2].name, parts[3].name>> = <<"operations", "map", "0">>
       /\ SubSeq(encBody, 1, 2) = <<DASH2, EncBoundary>>
       /\ SubSeq(encBody, n - 3, n) = <<DASH2, EncBoundary, DASH2, CRLF>>
       /\ parts[1].content
            = <<JsonText([query |-> encIn.query, variables |-> encIn.variables])>>
       /\ parts[2].content = <<JsonText("0" :> <<encIn.upload_var_path>>)>>
       /\ parts[3].content = encIn.file_bytes
       /\ parts[1].filename = NoName /\ parts[2].filename = NoName
       /\ parts[3].filename = encIn.filename

\* a file that itself holds CRLF "--" and a boundary text has been encoded
C6_Witness ==
  /\ encBody # EncNotCalled
  /\ encIn.file_bytes = <<CRLF, DASH2, StaleBoundary>>
  /\ Len(ParseMultipart(encBody, EncBoundary)) = 3

(***************************************************************************)
(* The creator, then the filler started on what the creator wrote: only    *)
(* --template-metadata is given, naming the metadata file by the path the  *)
(* creator printed or by its absolute path, from some working directory.   *)
(***************************************************************************)
FillerDirs == {WorkDir, <<"/", "home">>}

FillerInvoke ==
  /\ cPc = "exited" /\ cExit = ExitOk /\ fPc = "idle"
  /\ \E cwd \in FillerDirs :
       \E meta \in {MetadataPath(cArgs, cCast),
                    Absolute(cArgs.cwd, MetadataPath(cArgs, cCast))} :
         /\ Absolute(cwd, meta) = Absolute(cArgs.cwd, MetadataPath(cArgs, cCast))
         /\ fArgs' = [apiKey |-> cArgs.apiKey, cwd |-> cwd, templateId |-> None,
                      metadata |-> meta, payload |-> NoPath, out |-> OutFile,
                      versionNumber |-> JNull, noInteractive |-> FALSE,
                      defaultReadOnly |-> FALSE]
  /\ fPc' = "start"
  /\ UNCHANGED <<fs, fs0, fCalls, fReplies, fExit, fErr, fUsed, encVars, creatorVars>>

SpecRoundTripInit ==
  /\ CreatorInit /\ EncoderIdle /\ FillerIdle
  /\ cArgs.apiKey = "key"
  /\ fs = PdfAt(cArgs.cwd)
  /\ fs0 = fs
SpecRoundTripNext == CreatorNext \/ FillerInvoke \/ FillerNext
SpecRoundTrip == SpecRoundTripInit /\ [][SpecRoundTripNext]_vars

(***************************************************************************)
(* Vocabulary of the properties.                                           *)
(***************************************************************************)
CreatorEnded == cPc = "exited"
CreatorSucceeded == cPc = "exited" /\ cExit = 0
FillerEnded == fPc = "exited"

\* the record inside the i-th reply the creator got, for the field of that call
ReplyRecord(i) == cReplies[i].json.v["data"].v[cCalls[i].op]

\* the i-th call succeeded: a JSON document without errors holding a record
\* with an identifier under the call's field
ReplyOk(i) ==
  LET r == cReplies[i] IN
  /\ r.kind = "json" /\ r.json.t = "obj"
  /\ "errors" \notin DOMAIN r.json.v
  /\ "data" \in DOMAIN r.json.v /\ r.json.v["data"].t = "obj"
  /\ cCalls[i].op \in DOMAIN r.json.v["data"].v
  /\ ReplyRecord(i).t = "obj"
  /\ "eid" \in DOMAIN ReplyRecord(i).v

\* the re-fetched record of a successful creator run
Refetched == ReplyRecord(Len(cReplies))

WrittenPath(suffix) == CHOOSE p \in DOMAIN fs : p.name.suffix = suffix
HasWritten(suffix) == \E p \in DOMAIN fs : p.name.suffix = suffix
WrittenMetadata == fs[WrittenPath(".template.json")]
WrittenExample == fs[WrittenPath(".example-payload.json")]

Member(record, key) == IF key \in DOMAIN record.v THEN record.v[key] ELSE JNull

Warned == \E i \in 1..Len(cErr) : cErr[i].text = "Warning: no fields detected"

(***************************************************************************)
(* C7: the detected field count stored by the creator is the length of     *)
(* fieldInfo.fields of the re-fetched record when that is a list and null  *)
(* otherwise; the zero-fields warning is on standard error exactly when    *)
(* the count is 0, and then both files are written and the exit code is 0. *)
(***************************************************************************)
RefetchedFields ==
  LET info == Member(Refetched, "fieldInfo") IN
  IF info.t = "obj" THEN Member(info, "fields") ELSE JNull

C7_FieldCountAndWarning ==
  CreatorEnded =>
    IF cExit = 0
    THEN /\ HasWritten(".template.json") /\ HasWritten(".example-payload.json")
         /\ WrittenMetadata.v["detectedFieldCount"]
              = (IF RefetchedFields.t = "list"
                 THEN JNum(Len(RefetchedFields.v)) ELSE JNull)
         /\ Warned <=> (RefetchedFields.t = "list" /\ Len(RefetchedFields.v) = 0)
    ELSE ~Warned

\* a run whose re-fetched record has an empty fields list warned and succeeded
C7_Witness ==
  /\ CreatorSucceeded /\ Warned
  /\ RefetchedFields = JList(<<>>)
  /\ WrittenMetadata.v["detectedFieldCount"] = JNum(0)

(***************************************************************************)
(* C8: the example-payload file of a successful creator run is a JSON      *)
(* object with a data key: the service's exampleData verbatim when that is *)
(* an object holding data, otherwise the wrapper {title, fontSize 10,      *)
(* textColor "#333333", data} whose data is the returned object, or {}     *)
(* when the returned value is no object.                                   *)
(***************************************************************************)
DefaultTitle ==
  IF Member(Refetched, "title").t = "str" /\ Member(Refetched, "title").v # ""
  THEN Member(Refetched, "title")
  ELSE IF cArgs.title \notin {None, ""} THEN JStr(cArgs.title)
  ELSE JStr(cArgs.pdf.name.stem)

C8_ExamplePayloadHasData ==
  CreatorSucceeded =>
    LET returned == Member(Refetched, "exampleData")
        written == WrittenExample
    IN /\ written.t = "obj" /\ "data" \in DOMAIN written.v
       /\ IF returned.t = "obj" /\ "data" \in DOMAIN returned.v
          THEN written = returned
          ELSE written = JObj([title |-> DefaultTitle,
                               fontSize |-> JNum(10),
                               textColor |-> JStr("#333333"),
                               data |-> IF returned.t = "obj" THEN returned
                                        ELSE EmptyObj])

\* a run whose exampleData was a list wrote a wrapper around {}
C8_Witness ==
  /\ CreatorSucceeded
  /\ Member(Refetched, "exampleData").t = "list"
  /\ WrittenExample.v["data"] = EmptyObj

(***************************************************************************)
(* C9: the creator's network calls are, in order, createCast, publishCast  *)
(* if and only if --no-publish is absent, then the cast query; each call   *)
(* follows a successful previous one and uses the identifier that one      *)
(* returned; there are at most three; a run that succeeds made all of      *)
(* them, and its metadata and file names come from the re-fetched record.  *)
(***************************************************************************)
ExpectedOps ==
  IF cArgs.noPublish THEN <<"createCast", "cast">>
  ELSE <<"createCast", "publishCast", "cast">>

C9_CallSequence ==
  cPc \notin {"idle", "start"} =>
    /\ Len(cCalls) <= 3 /\ Len(cCalls) <= Len(ExpectedOps)
    /\ \A i \in 1..Len(cCalls) : cCalls[i].op = ExpectedOps[i]
    /\ Len(cReplies) <= Len(cCalls) /\ Len(cCalls) <= Len(cReplies) + 1
    /\ \A i \in 1..(Len(cCalls) - 1) : ReplyOk(i)
    /\ \A i \in 2..Len(cCalls) :
         cCalls[i].variables.v["eid"] = ReplyRecord(i - 1).v["eid"]
    /\ CreatorSucceeded =>
         /\ Len(cCalls) = Len(ExpectedOps) /\ Len(cReplies) = Len(cCalls)
         /\ ReplyOk(Len(cReplies))
         /\ WrittenMetadata.v["templateId"] = Refetched.v["eid"]
         /\ WrittenMetadata.v["templateName"] = Member(Refetched, "name")
         /\ WrittenMetadata.v["templateTitle"] = Member(Refetched, "title")
         /\ WrittenPath(".template.json").name.eid = Refetched.v["eid"].v
         /\ WrittenPath(".example-payload.json").name.eid = Refetched.v["eid"].v

\* three calls were made and the re-fetched record differs from the published one
C9_Witness ==
  /\ CreatorSucceeded /\ Len(cCalls) = 3
  /\ Refetched.v["eid"] # ReplyRecord(2).v["eid"]
  /\ ReplyRecord(2).v["eid"] # ReplyRecord(1).v["eid"]
  /\ WrittenMetadata.v["templateId"] = Refetched.v["eid"]

(***************************************************************************)
(* C4: for every network call of either tool, a non-2xx HTTP response ends *)
(* the run with a non-zero exit code and a line on standard error that     *)
(* holds the status code, and no network call follows it.                  *)
(***************************************************************************)
Quotes(lines, code) == \E k \in 1..Len(lines) : lines[k].code = code

C4_HttpErrorEndsRun ==
  /\ \A i \in 1..Len(cReplies) :
       cReplies[i].kind = "http" =>
         /\ i = Len(cReplies) /\ Len(cCalls) = i
         /\ cPc = "exited" /\ cExit > 0
         /\ Quotes(cErr, cReplies[i].code)
  /\ \A i \in 1..Len(fReplies) :
       fReplies[i].kind = "http" =>
         /\ i = Len(fReplies) /\ Len(fCalls) = i
         /\ fPc = "exited" /\ fExit > 0
         /\ Quotes(fErr, fReplies[i].code)

\* publishCast, the second call of a creator run, was answered with status 500
C4_Witness ==
  /\ Len(cReplies) = 2 /\ cCalls[2].op = "publishCast"
  /\ cReplies[2].kind = "http" /\ cReplies[2].code = 500
  /\ cExit = 1

(***************************************************************************)
(* C5: a creator run that fails at the credential check, the input check,  *)
(* createCast, publishCast or the re-fetch (a reply without the expected   *)
(* record included) has written neither *.template.json nor                *)
(* *.example-payload.json when it ends; a filler run that fails has not    *)
(* created or changed the output PDF.                                      *)
(***************************************************************************)
SameFile(path) ==
  /\ path \in DOMAIN fs <=> path \in DOMAIN fs0
  /\ path \in DOMAIN fs => fs[path] = fs0[path]

C5_NoFilesOnFailure ==
  /\ (CreatorEnded /\ cExit # 0) =>
       /\ ~HasWritten(".template.json") /\ ~HasWritten(".example-payload.json")
       /\ fs = fs0
  /\ (FillerEnded /\ fExit # 0) => SameFile(Absolute(fArgs.cwd, fArgs.out))

\* the re-fetch, third call of a creator run, answered without a record
C5_Witness ==
  /\ CreatorEnded /\ cExit = 1 /\ Len(cReplies) = 3
  /\ cReplies[3] = JsonResponse(JObj("data" :> JObj("cast" :> JNull)))
  /\ fs = fs0

(***************************************************************************)
(* C3: both tools end every configuration error (missing ANVIL_API_KEY, a  *)
(* missing input file, a missing argument combination) with exit code 2,   *)
(* every remote error (non-2xx status, GraphQL errors, malformed JSON)     *)
(* with exit code 1, and a successful run with exit code 0.                *)
(***************************************************************************)
NoKey(args) == args.apiKey \in {None, ""}
NoTemplateId == fArgs.templateId \in {None, ""}

CreatorConfigError == NoKey(cArgs) \/ Absolute(cArgs.cwd, cArgs.pdf) \notin DOMAIN fs0

FillerConfigError ==
  \/ NoKey(fArgs)
  \/ NoTemplateId /\ fArgs.metadata = NoPath
  \/ /\ fArgs.metadata # NoPath
     /\ NoTemplateId \/ fArgs.payload = NoPath
     /\ Absolute(fArgs.cwd, fArgs.metadata) \notin DOMAIN fs0
  \/ fArgs.payload # NoPath /\ Absolute(fArgs.cwd, fArgs.payload) \notin DOMAIN fs0

RemoteError(replies) ==
  /\ Len(replies) > 0
  /\ LET r == replies[Len(replies)] IN
     \/ r.kind \in {"http", "nonjson"}
     \/ r.kind = "json" /\ r.json.t = "obj" /\ "errors" \in DOMAIN r.json.v

C3_ExitCodeConvention ==
  /\ CreatorEnded =>
       /\ CreatorConfigError => cExit = 2
       /\ RemoteError(cReplies) => cExit = 1
       /\ HasWritten(".template.json") => cExit = 0
  /\ FillerEnded =>
       /\ FillerConfigError => fExit = 2
       /\ RemoteError(fReplies) => fExit = 1
       /\ ~SameFile(Absolute(fArgs.cwd, fArgs.out)) => fExit = 0

(***************************************************************************)
(* C1: the filler uses the explicit --template-id whenever one is given,   *)
(* also when a metadata file is given, and otherwise the templateId value  *)
(* of the metadata file, unchanged; it uses the explicit --payload         *)
(* whenever given and otherwise the metadata's examplePayloadPath; when    *)
(* for either of the two neither an explicit nor a metadata value is       *)
(* available the run ends in an error and sends no fill request.  An empty *)
(* string counts as not given, for the argument and in the metadata.       *)
(***************************************************************************)
\* the value of `key` in the metadata file, JNull when there is none
MetaMember(key) ==
  LET path == Absolute(fArgs.cwd, fArgs.metadata) IN
  IF fArgs.metadata # NoPath /\ path \in DOMAIN fs0 /\ fs0[path].t = "obj"
  THEN Member(fs0[path], key)
  ELSE JNull

Usable(j) == j.t = "path" \/ (j.t = "str" /\ j.v # "")

IdAvailable == ~NoTemplateId \/ Usable(MetaMember("templateId"))
PayloadAvailable == fArgs.payload # NoPath \/ Usable(MetaMember("examplePayloadPath"))

C1_ResolutionPolicy ==
  fPc \in {"fill", "exited"} =>
    /\ \A i \in 1..Len(fCalls) :
         /\ fCalls[i].templateId
              = (IF ~NoTemplateId THEN JStr(fArgs.templateId)
                 ELSE MetaMember("templateId"))
         /\ fUsed.payloadPath
              = (IF fArgs.payload # NoPath THEN fArgs.payload
                 ELSE MetaMember("examplePayloadPath").v)
    /\ ~(IdAvailable /\ PayloadAvailable) =>
         fCalls = <<>> /\ fPc = "exited" /\ fExit > 0

\* a request went out with both values taken from the metadata file
C1_Witness ==
  /\ Len(fCalls) = 1
  /\ NoTemplateId /\ fArgs.payload = NoPath
  /\ fCalls[1].templateId = JStr("tplM")
  /\ fUsed.payloadPath = ExampleFile

(***************************************************************************)
(* C2: without --no-interactive the body the filler submits is the payload *)
(* object it read with useInteractiveFields set to true and                *)
(* defaultReadOnly set to the --default-read-only toggle, every other key  *)
(* unchanged; with --no-interactive the body is the payload as read.       *)
(***************************************************************************)
PayloadRead == fs0[Absolute(fArgs.cwd, fUsed.payloadPath)]

ExpectedBody ==
  IF fArgs.noInteractive THEN PayloadRead
  ELSE JObj([k \in DOMAIN PayloadRead.v \cup {"useInteractiveFields", "defaultReadOnly"} |->
               IF k = "useInteractiveFields" THEN JBool(TRUE)
               ELSE IF k = "defaultReadOnly" THEN JBool(fArgs.defaultReadOnly)
               ELSE PayloadRead.v[k]])

C2_SubmittedBody ==
  \A i \in 1..Len(fCalls) : fCalls[i].body = <<JsonText(ExpectedBody)>>

\* a payload that already held both keys went out with both overwritten
C2_Witness ==
  /\ Len(fCalls) = 1 /\ ~fArgs.noInteractive /\ ~fArgs.defaultReadOnly
  /\ PayloadRead.v
       = [data |-> Jane, useInteractiveFields |-> JBool(FALSE),
          defaultReadOnly |-> JStr("yes")]
  /\ fCalls[1].body
       = <<JsonText(JObj([data |-> Jane, useInteractiveFields |-> JBool(TRUE),
                          defaultReadOnly |-> JBool(FALSE)]))>>

(***************************************************************************)
(* C10: after a successful creator run, the filler given only              *)
(* --template-metadata for the metadata file that run wrote sends one fill *)
(* request, for the identifier of the re-fetched record, with the content  *)
(* of the example-payload file of the same run as the payload.             *)
(***************************************************************************)
C10_CreatorFillerRoundTrip ==
  (CreatorSucceeded /\ fPc \in {"fill", "exited"}) =>
    /\ Len(fCalls) = 1
    /\ fCalls[1].templateId = Refetched.v["eid"]
    /\ Absolute(fArgs.cwd, fUsed.payloadPath) = WrittenPath(".example-payload.json")
    /\ fCalls[1].body
         = <<JsonText(JObj([useInteractiveFields |-> JBool(TRUE),
                            defaultReadOnly |-> JBool(FALSE)] @@ WrittenExample.v))>>

====
